---- MODULE Spec2Model ----
(***************************************************************************)
(* A model of the update-dispatch engine of tgbot: the acquisition loop    *)
(* (Bot.pollUpdates), the distribution channel (bot.updateC), the workers  *)
(* (Bot.startWorkers), the per-update lifecycle (Bot.handleUpdate), the    *)
(* context reuse pool (bot.pool) and the start/stop protocol (Run, Stop).  *)
(***************************************************************************)
EXTENDS Integers, Sequences, FiniteSets

\* ------------------------------------------------------------------ bounds

\* Update IDs the adapter may return are 1..MaxId.
MaxId == 3

\* ------------------------------------------------------------ configuration

\* What runtime.GOMAXPROCS(0) returns in NewBot: the default worker count, and
\* the largest one the options are given here.
GOMAXPROCS == 2

\* bot.limit as set by WithLimitUpdates: the longest batch GetUpdates returns.
limit == 2

\* Capacity of the ants pool handed to WithWorkerPool.
PoolCap == 1

Workers == 1..GOMAXPROCS
Ids == 1..MaxId
Slots == 1..PoolCap

\* Names for the Context objects alive at one time: one per worker goroutine
\* and one per pool slot is as many as can be referenced when a new one is
\* constructed.
Ctxs == 1..(GOMAXPROCS + PoolCap)

\* What WithPanicHandler leaves in bot.panicHandler: the default installed by
\* NewBot, a custom function, or nil.
PanicHandlers == {"default", "custom", "nil"}

\* Mutant of WithWorkerNum: an n below the current count is ignored.
WithWorkerNumRaises(cur, n) == IF n > cur THEN n ELSE cur

\* WithWorkerNum(n) applied to a bot whose workerNum is cur.
WithWorkerNum(cur, n) == IF cur > 0 THEN n ELSE cur

\* NewBot: the capacity of updateC for a configured bufSize (0: unset).
ChanCap(size) == IF size = 0 THEN limit ELSE size

\* The batches GetUpdates may return: at most limit updates, IDs strictly
\* increasing within the batch, free to overlap what earlier batches held.
Batches ==
  { s \in UNION { [1..n -> Ids] : n \in 0..limit } :
      \A i \in 1..(Len(s) - 1) : s[i] < s[i + 1] }

\* --------------------------------------------------------------- pointers

\* A *tgbotapi.Update as pollUpdates sends it: &update, the address of the
\* range variable.  id is the UpdateID the variable held when the pointer was
\* sent.  ref says what the variable holds now: the UpdateID k once the
\* variable is no longer written (a per-iteration variable, Go >= 1.22, from
\* the start; the one variable of a range statement, Go < 1.22, once that
\* range is over), and 0 while it is the variable of the range in progress,
\* which the next iteration overwrites.
NoUpdate == [id |-> 0, ref |-> 0]

VARIABLES
  workerNumOpt,  \* the n given to WithWorkerNum
  workerNum,     \* bot.workerNum
  bufSize,       \* bot.bufSize after NewBot: cap(bot.updateC)
  workerPool,    \* bot.workerPool != nil
  panicHandler,  \* bot.panicHandler: "default", "custom" or "nil"
  perIteration,  \* the build gives every range iteration its own variable
  undefinedCommandHandler,  \* bot.undefinedCommandHandler != nil
  updatesHandler,           \* bot.updatesHandler != nil
  timeout,       \* bot.timeout > 0
  runPc,         \* Run: "init", "waiting" (in wg.Wait), "returned", "failed"
  stopPc,        \* Stop: "idle", "waiting" (in wg.Wait), "returned"
  cancelled,     \* bot.ctx is done
  crashed,       \* an unrecovered panic has terminated the process
  wg,            \* bot.wg's counter
  offset,        \* bot.offset
  updateC,       \* bot.updateC: the buffered pointers, oldest first
  pollPc,        \* pollUpdates: "none", "top", "fetching", "iter", "send", "done"
  rest,          \* updates[i:], from the range iteration in progress on
  fetchOffset,   \* the Offset of the GetUpdates call whose batch is in hand
  loopVar,       \* update.UpdateID of the range variable of the range in progress
  worker,        \* per worker goroutine: pc, the Context and update held, Submit's result
  tasks,         \* the ants pool's slots: the executeHandler closure in each
  pool,          \* bot.pool (sync.Pool): how many times each Context is in it
  ctxUpdate,     \* ctx.update of each Context
  ctxScope,      \* ctx.Context of each Context: "bot" (bot.ctx), "derived" (a
                 \* timeout context, not cancelled), "cancelled" (one cancelled)
  lastEnq,       \* history: the UpdateID last sent into updateC (0: none yet)
  execs,         \* history: executeHandler runs started, per UpdateID being handled
  errs           \* the errors the step just taken handed to bot.errHandler

vars == << workerNumOpt, workerNum, bufSize, workerPool, panicHandler,
           perIteration, undefinedCommandHandler, updatesHandler, timeout,
           runPc, stopPc, cancelled, crashed, wg, offset, updateC, pollPc,
           rest, fetchOffset, loopVar, worker, tasks, pool, ctxUpdate,
           ctxScope, lastEnq, execs, errs >>

config == << workerNumOpt, workerNum, bufSize, workerPool, panicHandler,
            perIteration, undefinedCommandHandler, updatesHandler, timeout >>
pollVars == << offset, pollPc, rest, fetchOffset, loopVar >>
ctxVars == << pool, ctxUpdate, ctxScope >>
lifeVars == << runPc, stopPc, cancelled, wg >>

\* A worker goroutine: where it is, the Context and the update handleUpdate
\* holds, what Submit returned, the handler the router invoked (h), and whether
\* ctx.Context is the timeout context of this execution or derived from it (own).
IdleWorker ==
  [pc |-> "idle", ctx |-> 0, upd |-> NoUpdate, sub |-> "none", h |-> "none",
   own |-> FALSE]
Receiving ==
  [pc |-> "recv", ctx |-> 0, upd |-> NoUpdate, sub |-> "none", h |-> "none",
   own |-> FALSE]
FreeSlot ==
  [st |-> "free", ctx |-> 0, upd |-> NoUpdate, h |-> "none", own |-> FALSE]

\* The value a goroutine reads through an update pointer.
Deref(p) == IF p.ref = 0 THEN loopVar ELSE p.ref

\* NewBot followed by the options: the state before Run.
Init ==
  /\ workerNumOpt \in 1..GOMAXPROCS
  /\ workerNum = WithWorkerNum(GOMAXPROCS, workerNumOpt)
  /\ bufSize \in { ChanCap(size) : size \in {0, 1} }
  /\ workerPool \in BOOLEAN
  /\ panicHandler \in PanicHandlers
  /\ perIteration \in BOOLEAN
  /\ undefinedCommandHandler \in BOOLEAN
  /\ updatesHandler \in BOOLEAN
  /\ timeout \in BOOLEAN
  /\ runPc = "init"
  /\ stopPc = "idle"
  /\ cancelled = FALSE
  /\ crashed = FALSE
  /\ wg = 0
  /\ offset = 0
  /\ updateC = << >>
  /\ pollPc = "none"
  /\ rest = << >>
  /\ fetchOffset = 0
  /\ loopVar = 0
  /\ worker = [w \in Workers |-> IdleWorker]
  /\ tasks = [t \in Slots |-> FreeSlot]
  /\ pool = [c \in Ctxs |-> 0]
  /\ ctxUpdate = [c \in Ctxs |-> NoUpdate]
  /\ ctxScope = [c \in Ctxs |-> "bot"]
  /\ lastEnq = 0
  /\ execs = [i \in Ids |-> 0]
  /\ errs = {}

\* ------------------------------------------------------------ Run and Stop

\* startWorkers: wg.Add(1) and go startWorker(), workerNum times.
StartedWorkers ==
  [w \in Workers |-> IF w <= workerNum THEN Receiving ELSE IdleWorker]

\* Mutant of RunSetupFails: the error is returned after pollUpdates is started.
RunSetupFailsLate ==
  /\ runPc = "init"
  /\ runPc' = "failed"
  /\ pollPc' = "top"
  /\ errs' = {}
  /\ UNCHANGED << config, stopPc, cancelled, crashed, wg, offset, rest,
                  fetchOffset, loopVar, updateC, worker, tasks, ctxVars,
                  lastEnq, execs >>

\* Run, first half, when setupCommands returns an error: Run returns it.
RunSetupFails ==
  /\ runPc = "init"
  /\ runPc' = "failed"
  /\ errs' = {}
  /\ UNCHANGED << config, stopPc, cancelled, crashed, wg, pollVars, updateC,
                  worker, tasks, ctxVars, lastEnq, execs >>

\* Run, first half, when setupCommands succeeds: startWorkers, go pollUpdates,
\* and Run blocks in wg.Wait.
RunStarts ==
  /\ runPc = "init"
  /\ runPc' = "waiting"
  /\ worker' = StartedWorkers
  /\ wg' = wg + workerNum
  /\ pollPc' = "top"
  /\ errs' = {}
  /\ UNCHANGED << config, stopPc, cancelled, crashed, offset, rest,
                  fetchOffset, loopVar, updateC, tasks, ctxVars, lastEnq,
                  execs >>

\* Run's wg.Wait returns.
RunReturns ==
  /\ runPc = "waiting"
  /\ wg = 0
  /\ runPc' = "returned"
  /\ errs' = {}
  /\ UNCHANGED << config, stopPc, cancelled, crashed, wg, pollVars, updateC,
                  worker, tasks, ctxVars, lastEnq, execs >>

\* Stop, first half: bot.cancel(), then Stop blocks in wg.Wait.
StopCancels ==
  /\ runPc = "waiting"
  /\ stopPc = "idle"
  /\ cancelled' = TRUE
  /\ stopPc' = "waiting"
  /\ errs' = {}
  /\ UNCHANGED << config, runPc, crashed, wg, pollVars, updateC, worker,
                  tasks, ctxVars, lastEnq, execs >>

\* Stop's wg.Wait returns.
StopReturns ==
  /\ stopPc = "waiting"
  /\ wg = 0
  /\ stopPc' = "returned"
  /\ errs' = {}
  /\ UNCHANGED << config, runPc, cancelled, crashed, wg, pollVars, updateC,
                  worker, tasks, ctxVars, lastEnq, execs >>

\* ------------------------------------------------------------- pollUpdates

\* Mutant of Fresh: the comparison is strict.
FreshStrict(id, off) == id > off

\* update.UpdateID >= bot.offset
Fresh(id, off) == id >= off

\* Mutant of NextOffset: the offset skips an ID.
NextOffsetSkips(id) == id + 2

\* Mutant of NextOffset: the offset is set below the update sent.
NextOffsetBack(id) == id - 1

\* bot.offset = update.UpdateID + 1
NextOffset(id) == id + 1

\* Mutant of CanSend: the channel takes one more than its capacity.
CanSendOver == Len(updateC) <= bufSize

\* Mutant of CanSend: a send never blocks.
CanSendAlways == TRUE

\* A send into updateC proceeds when the buffer has room.
CanSend == Len(updateC) < bufSize

\* Where pollUpdates is once the range has r left to iterate over: the next
\* iteration, or back at the top of the for loop.
Ranging(r) == IF r = << >> THEN "top" ELSE "iter"

\* The Offset remembered with the batch in hand: none once the range is over.
InHand(r, off) == IF r = << >> THEN 0 ELSE off

\* The pointer &update of the iteration in progress.
RangePtr ==
  [id |-> Head(rest).id, ref |-> IF perIteration THEN Head(rest).id ELSE 0]

\* A pointer once the range whose variable it names is over: the variable
\* keeps the value v it had last.
Frozen(p, v) == IF p.id # 0 /\ p.ref = 0 THEN [p EXCEPT !.ref = v] ELSE p

\* The pointers held in the channel, by workers, by pool tasks and in Contexts
\* once the range has r left: as they are while it goes on, frozen at the
\* range variable's value v when it is over.
Settle(r, v, f) ==
  IF r = << >> THEN [x \in DOMAIN f |-> Frozen(f[x], v)] ELSE f
SettleUpd(r, v, f) ==
  IF r = << >> THEN [x \in DOMAIN f |-> [f[x] EXCEPT !.upd = Frozen(@, v)]]
  ELSE f

\* Top of the for loop: the select on bot.ctx.Done() with a default, then the
\* GetUpdates call is issued with Offset: bot.offset.
PollTop ==
  /\ pollPc = "top"
  /\ pollPc' = IF cancelled THEN "done" ELSE "fetching"
  /\ fetchOffset' = IF cancelled THEN 0 ELSE offset
  /\ errs' = {}
  /\ UNCHANGED << config, lifeVars, crashed, offset, rest, loopVar, updateC,
                  worker, tasks, ctxVars, lastEnq, execs >>

\* GetUpdates returns a batch and a nil error.
PollFetchReturns ==
  /\ pollPc = "fetching"
  /\ \E b \in Batches :
       /\ rest' = [i \in 1..Len(b) |-> [id |-> b[i]]]
       /\ pollPc' = Ranging(b)
       /\ fetchOffset' = InHand(b, fetchOffset)
  /\ errs' = {}
  /\ UNCHANGED << config, lifeVars, crashed, offset, loopVar, updateC, worker,
                  tasks, ctxVars, lastEnq, execs >>

\* Mutant of PollFetchFails: the failed fetch ends pollUpdates.
PollFetchFailsFatal ==
  /\ pollPc = "fetching"
  /\ errs' = { << "fetch", 0 >> }
  /\ pollPc' = "done"
  /\ fetchOffset' = 0
  /\ UNCHANGED << config, lifeVars, crashed, offset, rest, loopVar, updateC,
                  worker, tasks, ctxVars, lastEnq, execs >>

\* GetUpdates returns an error that is not context.Canceled: errHandler,
\* time.Sleep, continue.
PollFetchFails ==
  /\ pollPc = "fetching"
  /\ errs' = { << "fetch", 0 >> }
  /\ pollPc' = "top"
  /\ fetchOffset' = 0
  /\ UNCHANGED << config, lifeVars, crashed, offset, rest, loopVar, updateC,
                  worker, tasks, ctxVars, lastEnq, execs >>

\* GetUpdates returns context.Canceled (the hijacked client carries bot.ctx):
\* nothing is reported and the range over the nil slice does nothing.
PollFetchCanceled ==
  /\ pollPc = "fetching"
  /\ cancelled
  /\ pollPc' = "top"
  /\ fetchOffset' = 0
  /\ errs' = {}
  /\ UNCHANGED << config, lifeVars, crashed, offset, rest, loopVar, updateC,
                  worker, tasks, ctxVars, lastEnq, execs >>

\* One iteration of the range over updates, up to the send: the range variable
\* takes the next update; if its ID is fresh the offset is advanced and the
\* loop goes on to send, otherwise the update is skipped.
PollExamine ==
  /\ pollPc = "iter"
  /\ LET id == Head(rest).id IN
     IF Fresh(id, offset)
     THEN /\ offset' = NextOffset(id)
          /\ pollPc' = "send"
          /\ loopVar' = IF perIteration THEN 0 ELSE id
          /\ UNCHANGED << rest, fetchOffset, updateC, worker, tasks, ctxUpdate >>
     ELSE /\ offset' = offset
          /\ rest' = Tail(rest)
          /\ pollPc' = Ranging(Tail(rest))
          /\ fetchOffset' = InHand(Tail(rest), fetchOffset)
          /\ loopVar' = IF perIteration \/ Tail(rest) = << >> THEN 0 ELSE id
          /\ updateC' = Settle(Tail(rest), id, updateC)
          /\ worker' = SettleUpd(Tail(rest), id, worker)
          /\ tasks' = SettleUpd(Tail(rest), id, tasks)
          /\ ctxUpdate' = Settle(Tail(rest), id, ctxUpdate)
  /\ errs' = {}
  /\ UNCHANGED << config, lifeVars, crashed, pool, ctxScope, lastEnq, execs >>

\* bot.updateC <- &update: blocks while the buffer is full, whatever bot.ctx.
PollSend ==
  /\ pollPc = "send"
  /\ CanSend
  /\ LET id == Head(rest).id IN
       /\ updateC' = Settle(Tail(rest), id, Append(updateC, RangePtr))
       /\ worker' = SettleUpd(Tail(rest), id, worker)
       /\ tasks' = SettleUpd(Tail(rest), id, tasks)
       /\ ctxUpdate' = Settle(Tail(rest), id, ctxUpdate)
       /\ loopVar' = IF Tail(rest) = << >> THEN 0 ELSE loopVar
       /\ lastEnq' = id
  /\ rest' = Tail(rest)
  /\ pollPc' = Ranging(Tail(rest))
  /\ fetchOffset' = InHand(Tail(rest), fetchOffset)
  /\ errs' = {}
  /\ UNCHANGED << config, lifeVars, crashed, offset, pool, ctxScope, execs >>

\* ------------------------------------------------- Context and its reuse pool

\* The Contexts something still refers to: a worker or a pool task holds it,
\* or it is in bot.pool.  The others are garbage.
Referenced(wk, tk, pl) ==
  { c \in Ctxs : \/ pl[c] > 0
                 \/ \E w \in Workers : wk[w].ctx = c
                 \/ \E t \in Slots : tk[t].ctx = c }

\* ctx.update per Context, with the garbage collected.
Collected(cu, wk, tk, pl) ==
  [c \in Ctxs |-> IF c \in Referenced(wk, tk, pl) THEN cu[c] ELSE NoUpdate]

\* allocateContext: the Contexts it may return.  bot.pool.Get() hands out any
\* Context the pool holds; when it holds none, a new one is constructed.
Allocates ==
  IF \E c \in Ctxs : pool[c] > 0
  THEN { c \in Ctxs : pool[c] > 0 }
  ELSE LET free == Ctxs \ Referenced(worker, tasks, pool)
       IN  { c \in free : \A d \in free : c <= d }

\* bot.pool after allocateContext returned c.
AfterAllocate(c) == [pool EXCEPT ![c] = IF @ > 0 THEN @ - 1 ELSE 0]

\* ctx.Context per Context, with the garbage collected.
CollectedScope(cs, wk, tk, pl) ==
  [c \in Ctxs |-> IF c \in Referenced(wk, tk, pl) THEN cs[c] ELSE "bot"]

\* ctx.put(): the event binding is cleared, the scope is detached (ctx.Context
\* is bot.ctx again) and the Context goes back to bot.pool.
PutUpdate(cu, c) == [cu EXCEPT ![c] = NoUpdate]
PutScope(cs, c) == [cs EXCEPT ![c] = "bot"]
PutPool(pl, c) == [pl EXCEPT ![c] = @ + 1]

\* The executions that hold Context c no longer have their timeout context in
\* ctx.Context once ctx.put() has detached it.
Detached(f, c) ==
  [x \in DOMAIN f |-> IF f[x].ctx = c THEN [f[x] EXCEPT !.own = FALSE] ELSE f[x]]

\* ------------------------------------------------------ timeout and routing

\* executeHandler, if bot.timeout > 0: ctx.Context, cancel =
\* context.WithTimeout(ctx.Context, bot.timeout).  A context derived from a
\* cancelled one is cancelled from the start.
WithTimeout(scope) ==
  IF timeout THEN (IF scope = "cancelled" THEN "cancelled" ELSE "derived")
  ELSE scope

\* The deferred cancel() of an execution on Context c: ctx.Context is cancelled
\* with it when it is this execution's timeout context or derived from it.
Cancel(cs, c, own) == IF own THEN [cs EXCEPT ![c] = "cancelled"] ELSE cs

\* The commands registered with AddCommand.
cmdHandlers == {"start"}

\* What the update with UpdateID id is: a registered command, a command that
\* is not registered, or not a command (by the ID, so that every batch mixes
\* the kinds).
IsCommand(id) == id % 3 # 0
Command(id) ==
  IF id % 3 = 1 THEN "start" ELSE IF id % 3 = 2 THEN "unknown" ELSE ""

\* undefinedCmdHandler: the custom handler if set, else the "Unrecognized
\* command!!!" reply.
undefinedCmdHandler ==
  IF undefinedCommandHandler THEN "undefinedCommandHandler" ELSE "Unrecognized"

\* Mutant of executeCommandHandler: the fallback is always the default reply.
executeCommandHandlerDefault(name) ==
  IF name \in cmdHandlers THEN name ELSE "Unrecognized"

\* executeCommandHandler: the handler registered under ctx.Command(), else the
\* fallback.
executeCommandHandler(name) ==
  IF name \in cmdHandlers THEN name ELSE undefinedCmdHandler

\* executeUpdatesHandler: bot.updatesHandler if there is one.
executeUpdatesHandler == IF updatesHandler THEN "updatesHandler" ELSE "none"

\* The switch of executeHandler: the handler invoked for the closure's update
\* pointer u on a Context whose ctx.update is cu.  The test reads the update
\* through u, ctx.Command() reads it through ctx.update; "nil" when that
\* dereferences a nil ctx.update.
Route(u, cu) ==
  IF IsCommand(Deref(u))
  THEN IF cu = NoUpdate THEN "nil"
       ELSE executeCommandHandler(Command(Deref(cu)))
  ELSE executeUpdatesHandler

\* What an invoked handler can do: a command or fallback handler returns an
\* error or nil, bot.updatesHandler returns nothing, and with no handler
\* invoked there is nothing to panic.
ReturnsError(h) == h \in cmdHandlers \cup {"undefinedCommandHandler", "Unrecognized"}
CanReturn(h) == h # "nil"
CanPanic(h) == h # "none"

\* ------------------------------------------------------------ handleUpdate

\* The deferred recover is installed.
RecoverInstalled == (~workerPool) \/ panicHandler # "nil"

\* What workerPool.Submit may return: nothing to submit to, an error (the pool
\* is closed or, non-blocking, has no free worker), or nil when a slot is free.
FreeSlots == { t \in Slots : tasks[t].st = "free" }
SubmitResults ==
  IF ~workerPool THEN {"none"}
  ELSE {"fail"} \cup (IF FreeSlots # {} THEN {"ok"} ELSE {})

\* Mutant of AfterSubmit: a failed Submit ends handleUpdate.
AfterSubmitGivesUp(res) == IF res = "fail" THEN "recv" ELSE "running"

\* What handleUpdate does after the Submit block, whatever Submit returned:
\* the inline executeHandler() call, in which the routed handler runs.
AfterSubmit(res) == "running"

\* executeHandler runs started for update id, after one more if the worker
\* goes on to run it inline.
Started(ex, id, pc) == IF pc = "running" THEN [ex EXCEPT ![id] = @ + 1] ELSE ex

\* Mutant of SubmitReport: a failed Submit is not reported.
SubmitReportSilent(res, id) == {}

\* bot.errHandler(err) on a failed Submit.
SubmitReport(res, id) == IF res = "fail" THEN { << "submit", id >> } ELSE {}

\* The pool's slots after Submit(executeHandler) returned res.
Submitted(res, c, u) ==
  IF res = "ok"
  THEN LET t == CHOOSE x \in FreeSlots : \A y \in FreeSlots : x <= y
       IN  [tasks EXCEPT ![t] =
              [st |-> "queued", ctx |-> c, upd |-> u, h |-> "none",
               own |-> FALSE]]
  ELSE tasks

\* startWorker's select takes an update from updateC; handleUpdate allocates a
\* Context, binds the update, installs the recover, submits executeHandler to
\* the worker pool if there is one, and calls executeHandler itself: the
\* routed handler is invoked.
WorkerReceives(w) ==
  /\ worker[w].pc = "recv"
  /\ updateC # << >>
  /\ LET u == Head(updateC) IN
     \E c \in Allocates : \E res \in SubmitResults :
       /\ updateC' = Tail(updateC)
       /\ pool' = AfterAllocate(c)
       /\ ctxUpdate' = [ctxUpdate EXCEPT ![c] = u]
       /\ ctxScope' = [ctxScope EXCEPT ![c] = WithTimeout(@)]
       /\ tasks' = Submitted(res, c, u)
       /\ errs' = SubmitReport(res, u.id)
       /\ worker' = [worker EXCEPT ![w] =
                       [pc |-> AfterSubmit(res), ctx |-> c, upd |-> u,
                        sub |-> res, h |-> Route(u, u), own |-> timeout]]
       /\ execs' = Started(execs, u.id, AfterSubmit(res))
  /\ UNCHANGED << config, lifeVars, crashed, pollVars, lastEnq >>

\* Mutant of WorkerExits: the worker returns without the deferred bot.wg.Done().
WorkerExitsNoDone(w) ==
  /\ worker[w].pc = "recv"
  /\ cancelled
  /\ worker' = [worker EXCEPT ![w].pc = "exited"]
  /\ errs' = {}
  /\ UNCHANGED << config, lifeVars, crashed, pollVars, updateC, tasks, ctxVars,
                  lastEnq, execs >>

\* startWorker's select takes <-bot.ctx.Done(): return, and the deferred
\* bot.wg.Done().
WorkerExits(w) ==
  /\ worker[w].pc = "recv"
  /\ cancelled
  /\ worker' = [worker EXCEPT ![w].pc = "exited"]
  /\ wg' = wg - 1
  /\ errs' = {}
  /\ UNCHANGED << config, runPc, stopPc, cancelled, crashed, pollVars, updateC,
                  tasks, ctxVars, lastEnq, execs >>

\* The count of executeHandler runs started is kept for the updates a worker
\* or a pool task still holds.
Handling(wk, tk) ==
  { wk[w].upd.id : w \in Workers } \cup { tk[t].upd.id : t \in Slots }
Kept(ex, wk, tk) ==
  [i \in Ids |-> IF i \in Handling(wk, tk) THEN ex[i] ELSE 0]

\* bot.errHandler(err) for an error the handler returned.
HandlerReport(err, id) == IF err THEN { << "handler", id >> } ELSE {}

\* Mutant of InlineReturns: an error of the handler ends the worker goroutine.
InlineReturnsOrStops(w) ==
  /\ worker[w].pc = "running"
  /\ CanReturn(worker[w].h)
  /\ \E err \in { e \in BOOLEAN : e => ReturnsError(worker[w].h) } :
       /\ errs' = HandlerReport(err, worker[w].upd.id)
       /\ worker' = [worker EXCEPT ![w] =
                       IF err THEN [Receiving EXCEPT !.pc = "exited"]
                       ELSE Receiving]
  /\ ctxUpdate' = PutUpdate(ctxUpdate, worker[w].ctx)
  /\ ctxScope' = PutScope(ctxScope, worker[w].ctx)
  /\ pool' = PutPool(pool, worker[w].ctx)
  /\ tasks' = Detached(tasks, worker[w].ctx)
  /\ execs' = Kept(execs, [worker EXCEPT ![w] = Receiving], tasks)
  /\ UNCHANGED << config, lifeVars, crashed, pollVars, updateC, lastEnq >>

\* The handler invoked inline returns (nil or an error): ctx.put(), and
\* handleUpdate returns to startWorker's loop.
InlineReturns(w) ==
  /\ worker[w].pc = "running"
  /\ CanReturn(worker[w].h)
  /\ \E err \in { e \in BOOLEAN : e => ReturnsError(worker[w].h) } :
       errs' = HandlerReport(err, worker[w].upd.id)
  /\ ctxUpdate' = PutUpdate(ctxUpdate, worker[w].ctx)
  /\ ctxScope' = PutScope(ctxScope, worker[w].ctx)
  /\ pool' = PutPool(pool, worker[w].ctx)
  /\ worker' = [worker EXCEPT ![w] = Receiving]
  /\ tasks' = Detached(tasks, worker[w].ctx)
  /\ execs' = Kept(execs, [worker EXCEPT ![w] = Receiving], tasks)
  /\ UNCHANGED << config, lifeVars, crashed, pollVars, updateC, lastEnq >>

\* What bot.panicHandler(e) may return: the default's fixed message, or
\* whatever a custom handler returns ("" for an empty string).
PanicMessages == IF panicHandler = "default" THEN {"text"} ELSE {"", "text"}

\* The default panic handler's bot.errHandler(fmt.Errorf("tgbot panic: ...")).
PanicReport(id) == IF panicHandler = "default" THEN { << "panic", id >> } ELSE {}

\* How a panic of the handler invoked inline ends for the worker goroutine:
\* "recv" when the deferred function recovers and returns, "crashed" when the
\* panic is not recovered (no recover installed), when the deferred function
\* calls a nil bot.panicHandler, or when ctx.ReplyText dereferences a nil
\* ctx.update.
PanicEnds(c, msg) ==
  IF ~RecoverInstalled \/ panicHandler = "nil" THEN "crashed"
  ELSE IF msg # "" /\ ctxUpdate[c] = NoUpdate THEN "crashed"
  ELSE "recv"

\* The handler invoked inline panics.
InlinePanics(w) ==
  /\ worker[w].pc = "running"
  /\ CanPanic(worker[w].h)
  /\ LET c == worker[w].ctx
         id == worker[w].upd.id
     IN \E msg \in PanicMessages : \E replyErr \in BOOLEAN :
          LET end == PanicEnds(c, msg)
              wk == [worker EXCEPT ![w] =
                       IF end = "recv" THEN Receiving
                       ELSE [@ EXCEPT !.pc = "crashed"]]
          IN
          /\ worker' = wk
          /\ crashed' = (end = "crashed")
          /\ ctxUpdate' = Collected(ctxUpdate, wk, tasks, pool)
          /\ ctxScope' = CollectedScope(Cancel(ctxScope, c, worker[w].own),
                                        wk, tasks, pool)
          /\ execs' = Kept(execs, wk, tasks)
          /\ errs' =
               (IF RecoverInstalled /\ panicHandler # "nil"
                THEN PanicReport(id) ELSE {})
                 \cup (IF end = "recv" /\ msg # "" /\ replyErr
                       THEN { << "reply", id >> } ELSE {})
  /\ UNCHANGED << config, lifeVars, pollVars, updateC, tasks, pool, lastEnq >>

\* ------------------------------------------------------------ the ants pool

\* A pool goroutine picks the submitted executeHandler up: the routed handler
\* is invoked.
TaskStarts(t) ==
  /\ tasks[t].st = "queued"
  /\ tasks' = [tasks EXCEPT ![t] =
                 [@ EXCEPT !.st = "running",
                           !.h = Route(tasks[t].upd, ctxUpdate[tasks[t].ctx]),
                           !.own = timeout]]
  /\ ctxScope' = [ctxScope EXCEPT ![tasks[t].ctx] = WithTimeout(@)]
  /\ execs' = [execs EXCEPT ![tasks[t].upd.id] = @ + 1]
  /\ errs' = {}
  /\ UNCHANGED << config, lifeVars, crashed, pollVars, updateC, worker, pool,
                  ctxUpdate, lastEnq >>

\* The handler invoked in the pool returns: ctx.put().
TaskReturns(t) ==
  /\ tasks[t].st = "running"
  /\ CanReturn(tasks[t].h)
  /\ \E err \in { e \in BOOLEAN : e => ReturnsError(tasks[t].h) } :
       errs' = HandlerReport(err, tasks[t].upd.id)
  /\ ctxUpdate' = PutUpdate(ctxUpdate, tasks[t].ctx)
  /\ ctxScope' = PutScope(ctxScope, tasks[t].ctx)
  /\ pool' = PutPool(pool, tasks[t].ctx)
  /\ tasks' = [tasks EXCEPT ![t] = FreeSlot]
  /\ worker' = Detached(worker, tasks[t].ctx)
  /\ execs' = Kept(execs, worker, [tasks EXCEPT ![t] = FreeSlot])
  /\ UNCHANGED << config, lifeVars, crashed, pollVars, updateC, lastEnq >>

\* The handler invoked in the pool panics: the pool's own goroutine recovers,
\* handleUpdate's deferred function is not on this stack, ctx.put() is skipped.
TaskPanics(t) ==
  /\ tasks[t].st = "running"
  /\ CanPanic(tasks[t].h)
  /\ LET tk == [tasks EXCEPT ![t] = FreeSlot] IN
       /\ tasks' = tk
       /\ ctxUpdate' = Collected(ctxUpdate, worker, tk, pool)
       /\ ctxScope' = CollectedScope(Cancel(ctxScope, tasks[t].ctx, tasks[t].own),
                                     worker, tk, pool)
       /\ execs' = Kept(execs, worker, tk)
  /\ errs' = {}
  /\ UNCHANGED << config, lifeVars, crashed, pollVars, updateC, worker, pool,
                  lastEnq >>

\* ------------------------------------------------------------ specification

Next ==
  /\ ~crashed
  /\ \/ RunSetupFails
     \/ RunStarts
     \/ RunReturns
     \/ StopCancels
     \/ StopReturns
     \/ PollTop
     \/ PollFetchReturns
     \/ PollFetchFails
     \/ PollFetchCanceled
     \/ PollExamine
     \/ PollSend
     \/ \E w \in Workers : WorkerReceives(w)
     \/ \E w \in Workers : WorkerExits(w)
     \/ \E w \in Workers : InlineReturns(w)
     \/ \E w \in Workers : InlinePanics(w)
     \/ \E t \in Slots : TaskStarts(t)
     \/ \E t \in Slots : TaskReturns(t)
     \/ \E t \in Slots : TaskPanics(t)

\* No WithUndefinedCmdHandler and no WithTimeout, and a handler given to
\* WithUpdatesHandler.
DefaultHandlers == ~undefinedCommandHandler /\ updatesHandler /\ ~timeout

\* Every configuration NewBot and the options can produce here.
Spec == Init /\ [][Next]_vars

\* The configurations without WithWorkerPool: one or two workers, every panic
\* handler, both kinds of range variable, both buffer sizes.
InitInline == Init /\ ~workerPool /\ DefaultHandlers

NextInline ==
  /\ ~crashed
  /\ \/ RunSetupFails
     \/ RunStarts
     \/ RunReturns
     \/ StopCancels
     \/ StopReturns
     \/ PollTop
     \/ PollFetchReturns
     \/ PollFetchFails
     \/ PollFetchCanceled
     \/ PollExamine
     \/ PollSend
     \/ \E w \in Workers : WorkerReceives(w)
     \/ \E w \in Workers : WorkerExits(w)
     \/ \E w \in Workers : InlineReturns(w)
     \/ \E w \in Workers : InlinePanics(w)

SpecInline == InitInline /\ [][NextInline]_vars

\* Fair scheduling without a worker pool: a goroutine that can run does run.  A
\* worker whose select has <-bot.ctx.Done() ready takes it once nothing else
\* is left to take, a handler invoked inline goes on until it has returned or
\* panicked, and a wg.Wait whose counter is zero returns.  Nothing is assumed
\* of pollUpdates.
Fairness ==
  /\ \A w \in Workers : WF_vars(WorkerExits(w))
  /\ \A w \in Workers : WF_vars(InlineReturns(w))
  /\ WF_vars(StopReturns)
  /\ WF_vars(RunReturns)

\* The configurations of SpecInline with the default panic handler, under
\* which every panic of a handler is recovered and the worker goes on.
InitInlineFair == InitInline /\ panicHandler = "default"

SpecInlineFair == InitInlineFair /\ [][NextInline]_vars /\ Fairness

\* The configurations with WithWorkerNum(1): with and without a worker pool,
\* every panic handler, both kinds of range variable, both buffer sizes.
InitOneWorker == Init /\ workerNum = 1 /\ DefaultHandlers

SpecOneWorker == InitOneWorker /\ [][Next]_vars

\* One worker, WithBufferSize(1), the default panic handler and no worker
\* pool, with every combination of WithUndefinedCmdHandler, WithUpdatesHandler
\* and WithTimeout and both kinds of range variable.
InitHandlers ==
  /\ Init
  /\ workerNum = 1
  /\ bufSize = 1
  /\ panicHandler = "default"
  /\ ~workerPool

SpecHandlers == InitHandlers /\ [][NextInline]_vars

\* One worker, WithBufferSize(1) and WithTimeout(d) with d > 0, with and
\* without a worker pool, every panic handler and both kinds of range variable.
InitTimeout ==
  /\ Init
  /\ workerNum = 1
  /\ bufSize = 1
  /\ timeout
  /\ ~undefinedCommandHandler
  /\ updatesHandler

SpecTimeout == InitTimeout /\ [][Next]_vars

\* ------------------------------------------------------------------ claims

\* The update pointers held anywhere: in the channel, by workers, by pool
\* tasks, in Contexts.
HeldPtrs ==
  { updateC[i] : i \in 1..Len(updateC) }
    \cup { worker[w].upd : w \in Workers }
    \cup { tasks[t].upd : t \in Slots }
    \cup { ctxUpdate[c] : c \in Ctxs }

\* The UpdateIDs in the channel, oldest first.
QueuedIds == [i \in 1..Len(updateC) |-> updateC[i].id]

\* pollUpdates takes a step of the range over updates.
RangeStep == << pollPc, rest >>' # << pollPc, rest >>

\* C1, the examined update is fresh: the loop goes on to send it, and nothing
\* is enqueued before that send.
C1_FreshIsSent ==
  /\ pollPc' = "send"
  /\ rest' = rest
  /\ Head(rest).id >= fetchOffset
  /\ QueuedIds' = QueuedIds

\* C1, the examined update is below the watermark: it is dropped with no
\* enqueue, no handler invocation and no change of the watermark, and no held
\* pointer comes to read it.
C1_StaleIsDropped ==
  /\ rest' = Tail(rest)
  /\ pollPc' # "send"
  /\ Head(rest).id < fetchOffset
  /\ QueuedIds' = QueuedIds
  /\ UNCHANGED << offset, lastEnq, execs >>
  /\ \A p \in HeldPtrs : p.id # 0 => p.ref # 0

\* C1, the send: the update at the head of the range goes to the back of the
\* channel, behind everything queued, and its ID is above every ID sent before.
C1_SendAppends ==
  /\ QueuedIds' = Append(QueuedIds, Head(rest).id)
  /\ Head(rest).id > lastEnq
  /\ lastEnq' = Head(rest).id
  /\ rest' = Tail(rest)

\* C1: pollUpdates enqueues an update if and only if its ID is >= the
\* watermark when it is examined (equivalently, >= the Offset its batch was
\* fetched with); each such update is enqueued once, in the order the adapter
\* returned it; an update below the watermark causes no enqueue, no handler
\* invocation and no change of the watermark.  Nothing else enqueues.
C1_AcquisitionFilter ==
  [][ /\ (pollPc = "iter" /\ RangeStep) =>
           IF Head(rest).id >= offset THEN C1_FreshIsSent ELSE C1_StaleIsDropped
      /\ (pollPc = "send" /\ RangeStep) => C1_SendAppends
      /\ Len(updateC') > Len(updateC) => (pollPc = "send" /\ RangeStep)
    ]_vars

\* C1 witness: a batch overlapping an earlier one is being ranged over, its
\* first update below the watermark and its second not, with an update of the
\* earlier batch still queued.
C1_Witness ==
  /\ pollPc = "iter"
  /\ Len(rest) = 2
  /\ rest[1].id < offset
  /\ rest[2].id >= offset
  /\ updateC # << >>

\* C2 as stated: the watermark is at most 1 + the largest ID already placed
\* into the channel.
C2_AdvancesAfterEnqueue == offset <= lastEnq + 1

\* C2 amended: the watermark is at most 1 + the largest ID already placed into
\* the channel or carried by the send pollUpdates is about to make or blocked in.
C2_AdvancesWithSend ==
  offset <= (IF pollPc = "send" THEN Head(rest).id ELSE lastEnq) + 1

\* C2 witness: pollUpdates is blocked sending into a full channel, the
\* watermark already past the update it has not yet handed off.
C2_Witness ==
  /\ pollPc = "send"
  /\ ~CanSend
  /\ offset = Head(rest).id + 1
  /\ lastEnq < Head(rest).id

\* C3: every update a worker dequeues has its routed handler executed exactly
\* once, whether no worker pool is configured, Submit succeeds or Submit fails:
\* an update a worker holds has had one executeHandler run started, and no
\* update ever has had more.
C3_ExactlyOnce ==
  /\ \A w \in Workers : worker[w].upd.id # 0 => execs[worker[w].upd.id] >= 1
  /\ \A i \in Ids : execs[i] <= 1

\* The handler invocations in progress that use Context c.
Executing(c) ==
  { << "worker", w >> : w \in { x \in Workers :
        worker[x].pc = "running" /\ worker[x].ctx = c } }
    \cup { << "task", t >> : t \in { x \in Slots :
        tasks[x].st = "running" /\ tasks[x].ctx = c } }

\* C4: no Context is bound to two executions in progress, and no Context is in
\* bot.pool while an execution still uses it.
C4_ExclusiveContext ==
  \A c \in Ctxs :
    /\ Cardinality(Executing(c)) <= 1
    /\ pool[c] > 0 => Executing(c) = {}

\* The worker goroutines that have not returned.
LiveWorkers == { w \in Workers : worker[w].pc \in {"recv", "running"} }

\* C5: in any state in which Stop has returned, no worker goroutine and no
\* pollUpdates goroutine is still running or blocked.
C5_StopWaitsForAll ==
  stopPc = "returned" => LiveWorkers = {} /\ pollPc = "done"

\* C6: when Stop returns, no handler invocation is still executing, in a
\* worker or in the worker pool.
C6_StopWaitsForHandlers ==
  [][ (stopPc = "waiting" /\ stopPc' = "returned") =>
        /\ \A w \in Workers : worker[w].pc # "running"
        /\ \A t \in Slots : tasks[t].st # "running"
    ]_vars

\* C7: a handler panic never terminates the worker that ran it: a worker
\* leaves a handler invocation only for its receive loop, whatever the panic
\* handler configured.
C7_PanicKeepsWorker ==
  [][ \A w \in Workers :
        (worker[w].pc = "running" /\ worker'[w].pc # "running") =>
          worker'[w].pc = "recv"
    ]_vars

\* C8: when a worker pool is configured and Submit fails, bot.errHandler is
\* given the submission error and the update is still executed inline by the
\* worker; no dequeued update goes without a handler execution.
C8_SubmitFailureFallsBack ==
  [][ \A w \in Workers :
        (worker[w].pc = "recv" /\ worker'[w].upd.id # 0) =>
          /\ worker'[w].pc = "running"
          /\ execs'[worker'[w].upd.id] >= 1
          /\ worker'[w].sub = "fail" =>
               errs' = { << "submit", worker'[w].upd.id >> }
          /\ worker'[w].sub # "fail" => errs' = {}
    ]_vars

\* C8 witness: a worker pool is configured, Submit has just failed and been
\* reported, and the worker is running the handler inline.
C8_Witness ==
  /\ workerPool
  /\ \E w \in Workers :
       /\ worker[w].sub = "fail"
       /\ worker[w].pc = "running"
       /\ execs[worker[w].upd.id] = 1
       /\ errs = { << "submit", worker[w].upd.id >> }

\* The updates whose execution lifecycle is in progress: dequeued by a worker
\* and not yet done with, in the worker or in the worker pool.
InProgress == Handling(worker, tasks) \ {0}

\* C9 as stated: updates queued plus updates in progress are at most
\* bufSize + workerNum, with or without a worker pool.
C9_Bounded == Len(updateC) + Cardinality(InProgress) <= bufSize + workerNum

\* C9 amended: updates queued plus updates in progress are at most
\* bufSize + workerNum without a worker pool, and at most
\* bufSize + workerNum + the pool's capacity with one.
C9_BoundedWithPool ==
  Len(updateC) + Cardinality(InProgress)
    <= bufSize + workerNum + (IF workerPool THEN PoolCap ELSE 0)

\* C9 witness: with a worker pool, the channel is full, the worker handles one
\* update and the pool still holds an earlier one.
C9_Witness ==
  /\ workerPool
  /\ Len(updateC) = bufSize
  /\ Cardinality(InProgress) = workerNum + PoolCap

\* C10: exactly workerNum workers are running from the completion of
\* startWorkers to the cancellation, and none once Stop has returned.
C10_WorkerCount ==
  /\ (runPc = "waiting" /\ ~cancelled) => Cardinality(LiveWorkers) = workerNum
  /\ stopPc = "returned" => LiveWorkers = {}

\* WithBufferSize(1), WithWorkerNum(1) and no worker pool.
OneWorkerOneSlot == bufSize = 1 /\ workerNum = 1 /\ ~workerPool

\* The handler of the first update the worker took is blocked, and nothing has
\* been enqueued since that update.
FirstHandlerBlocked ==
  /\ worker[1].pc = "running"
  /\ lastEnq = worker[1].upd.id

\* C11 as stated: with buffer size 1 and one worker, once the first update's
\* handler is blocked the second enqueue attempt of pollUpdates blocks.
C11_SecondSendBlocks ==
  (OneWorkerOneSlot /\ FirstHandlerBlocked /\ pollPc = "send") => ~CanSend

\* C11 amended: with buffer size 1 and one worker, the second enqueue goes into
\* the empty buffer; once the handler is blocked and the buffer holds an
\* update, the next enqueue attempt blocks: nothing is enqueued while the
\* handler has not completed, and the buffer drains only by the worker, back
\* in its receive loop, taking the update.
C11_SendBlocksOnFullBuffer ==
  [][ OneWorkerOneSlot =>
        /\ (worker[1].pc = "running" /\ updateC # << >> /\ worker'[1].pc = "running")
             => (QueuedIds' = QueuedIds /\ lastEnq' = lastEnq)
        /\ lastEnq' # lastEnq => updateC = << >>
        /\ Len(updateC') < Len(updateC) => worker[1].pc = "recv"
    ]_vars

\* C11 witness: the handler of update 1 is blocked, update 2 fills the buffer
\* and pollUpdates is blocked sending update 3.
C11_Witness ==
  /\ OneWorkerOneSlot
  /\ worker[1].pc = "running"
  /\ Len(updateC) = 1
  /\ pollPc = "send"
  /\ ~CanSend
  /\ Head(rest).id > updateC[1].id
  /\ updateC[1].id > worker[1].upd.id

\* C13: when a fetch fails with an error that is not a cancellation, the
\* error is reported once, nothing is enqueued, the watermark is unchanged,
\* pollUpdates does not terminate, and unless the cancellation is signaled
\* meanwhile the next fetch is issued with the same Offset.
C13_FetchFailureRetries ==
  [][ /\ << "fetch", 0 >> \in errs' =>
           /\ errs' = { << "fetch", 0 >> }
           /\ pollPc = "fetching"
           /\ pollPc' = "top"
           /\ fetchOffset = offset
           /\ UNCHANGED << offset, updateC, lastEnq, execs, rest, worker >>
      /\ (pollPc = "fetching" /\ pollPc' = "top") => UNCHANGED << offset, updateC >>
      /\ (pollPc = "top" /\ pollPc' # "top") =>
           IF cancelled THEN pollPc' = "done"
           ELSE pollPc' = "fetching" /\ fetchOffset' = offset /\ offset' = offset
    ]_vars

\* C13 witness: after updates have been enqueued a fetch has just failed; the
\* error is reported and pollUpdates is back at the top of its loop.
C13_Witness ==
  /\ errs = { << "fetch", 0 >> }
  /\ pollPc = "top"
  /\ offset > 0
  /\ ~cancelled

\* C14: if setupCommands fails, Run returns the error and no worker and no
\* pollUpdates has been started: GetUpdates is never called and no update is
\* ever handled.
C14_SetupFailureStartsNothing ==
  runPc = "failed" =>
    /\ \A w \in Workers : worker[w] = IdleWorker
    /\ pollPc = "none"
    /\ wg = 0
    /\ updateC = << >>
    /\ lastEnq = 0
    /\ offset = 0
    /\ \A i \in Ids : execs[i] = 0

\* C14 witness: Run has returned the error of setupCommands.
C14_Witness ==
  /\ runPc = "failed"
  /\ pollPc = "none"
  /\ stopPc = "idle"

\* C17: bot.offset never decreases and is written only by pollUpdates, in the
\* iteration that goes on to send the update.
C17_OffsetMonotone ==
  [][ /\ offset' >= offset
      /\ offset' # offset =>
           /\ pollPc = "iter"
           /\ pollPc' = "send"
           /\ offset' = Head(rest).id + 1
           /\ UNCHANGED << worker, tasks, runPc, stopPc, cancelled >>
    ]_vars

\* C17 witness: the offset has been advanced twice and a worker is handling an
\* update meanwhile.
C17_Witness ==
  /\ offset > 2
  /\ pollPc = "send"
  /\ \E w \in Workers : worker[w].pc = "running"

\* C16 as stated: WithWorkerNum(n) with n below the default is ignored, and
\* the bot starts the default number of workers.
C16_LoweringIgnored ==
  (runPc = "waiting" /\ ~cancelled /\ ~crashed /\ workerNumOpt < GOMAXPROCS) =>
    (workerNum = GOMAXPROCS /\ Cardinality(LiveWorkers) = GOMAXPROCS)

\* C16 amended: WithWorkerNum(n) sets the worker count to n whatever the
\* default, lower values included, and Run starts n workers.
C16_WorkerNumApplied ==
  /\ workerNum = workerNumOpt
  /\ (runPc = "waiting" /\ ~cancelled /\ ~crashed) =>
       Cardinality(LiveWorkers) = workerNumOpt

\* C16 witness: WithWorkerNum(n) with n below the default, and Run has
\* started n workers, fewer than the default.
C16_Witness ==
  /\ workerNumOpt < GOMAXPROCS
  /\ runPc = "waiting"
  /\ ~cancelled
  /\ Cardinality(LiveWorkers) = workerNumOpt
  /\ \E w \in Workers : worker[w] = IdleWorker

\* The handler the router is to invoke for the update with UpdateID id: for a
\* command the handler registered under its name, else the fallback; for any
\* other update the catch-all handler if configured, else nothing.
Routed(id) ==
  IF IsCommand(id)
  THEN IF Command(id) \in cmdHandlers THEN Command(id)
       ELSE IF undefinedCommandHandler THEN "undefinedCommandHandler"
       ELSE "Unrecognized"
  ELSE IF updatesHandler THEN "updatesHandler" ELSE "none"

\* C12: routing is total and deterministic: whenever an execution starts, in a
\* worker or in the worker pool, the handler invoked is the one the update it
\* handles is to be routed to, and no other.
C12_RoutingTotal ==
  [][ /\ \A w \in Workers :
           (worker[w].pc = "recv" /\ worker'[w].pc = "running") =>
             worker'[w].h = Routed(Deref(worker'[w].upd))
      /\ \A t \in Slots :
           (tasks[t].st = "queued" /\ tasks'[t].st = "running") =>
             tasks'[t].h = Routed(Deref(tasks[t].upd))
    ]_vars

\* C12 without a worker pool: every update kind has been routed by the worker.
C12_InlineWitness ==
  /\ ~workerPool
  /\ undefinedCommandHandler
  /\ worker[1].pc = "running"
  /\ worker[1].h = "undefinedCommandHandler"
  /\ IsCommand(worker[1].upd.id)

\* C15: an error returned by a command or fallback handler is forwarded to
\* bot.errHandler, once and alone, goes no further and does not stop the
\* worker: the worker releases the Context and is back in its receive loop.
\* Errors of handlers are reported by no other step, and a step that ends a
\* handler invocation normally reports nothing else.
C15_HandlerErrorForwarded ==
  [][ \A w \in Workers :
        (worker[w].pc = "running" /\ worker'[w].pc # "running" /\ ~crashed') =>
          /\ worker'[w] = Receiving
          /\ \/ errs' \subseteq { << "panic", worker[w].upd.id >>,
                                  << "reply", worker[w].upd.id >> }
             \/ /\ errs' = { << "handler", worker[w].upd.id >> }
                /\ worker[w].h \in
                     cmdHandlers \cup {"undefinedCommandHandler", "Unrecognized"}
                /\ pool'[worker[w].ctx] = pool[worker[w].ctx] + 1
                /\ UNCHANGED << cancelled, wg, updateC, offset >>
    ]_vars

\* C15 witness: the custom fallback handler has just returned an error; it
\* has been reported and the worker is back in its receive loop with the next
\* update queued.
C15_Witness ==
  /\ undefinedCommandHandler
  /\ \E i \in Ids : errs = { << "handler", i >> } /\ ~(Command(i) \in cmdHandlers)
  /\ worker[1] = Receiving
  /\ updateC # << >>
  /\ ~cancelled

\* C18: with a positive timeout, at the moment a handler starts, in a worker
\* or in the worker pool, the scope of its Context is not already cancelled
\* unless bot.ctx is.
C18_ScopeLiveAtStart ==
  [][ (timeout /\ ~cancelled) =>
        /\ \A w \in Workers :
             (worker[w].pc = "recv" /\ worker'[w].pc = "running") =>
               ctxScope'[worker'[w].ctx] = "derived"
        /\ \A t \in Slots :
             (tasks[t].st = "queued" /\ tasks'[t].st = "running") =>
               ctxScope'[tasks[t].ctx] = "derived"
    ]_vars

\* C18 without a worker pool: a Context that has handled an update before is
\* reused from bot.pool and its handler starts with a live scope.
C18_InlineWitness ==
  /\ ~workerPool
  /\ timeout
  /\ worker[1].pc = "running"
  /\ worker[1].upd.id > 1
  /\ lastEnq > worker[1].upd.id
  /\ ctxScope[worker[1].ctx] = "derived"

\* C19: absent cancellation, every event the acquisition loop enqueues is
\* handled: the execution a worker starts for a pointer it dequeued handles the
\* update that pointer was enqueued for, so no enqueued event is lost and the
\* handler runs once per event enqueued.
C19_EnqueuedIsHandled ==
  [][ ~cancelled =>
        \A w \in Workers :
          (worker[w].pc = "recv" /\ worker'[w].pc = "running") =>
            /\ worker'[w].upd = Head(updateC)
            /\ Deref(worker'[w].upd) = Head(updateC).id
    ]_vars

\* The scenario of C19: one worker, buffer size 1, the batches [1] and [2]
\* fetched one after the other, both handled, the offset at 3.
C19_ScenarioWitness ==
  /\ workerNum = 1
  /\ bufSize = 1
  /\ ~cancelled
  /\ offset = 3
  /\ lastEnq = 2
  /\ updateC = << >>
  /\ pollPc = "fetching"
  /\ \E w \in Workers :
       /\ worker[w].pc = "running"
       /\ worker[w].upd.id = 2
       /\ Deref(worker[w].upd) = 2

\* C20: Stop terminates.  Once Stop has cancelled, under fair scheduling and
\* with handlers that return (or panic and are recovered), every worker exits
\* and Stop and Run return, whatever the channel still holds and wherever
\* pollUpdates is.
C20_StopTerminates ==
  (stopPc = "waiting") ~>
    (LiveWorkers = {} /\ stopPc = "returned" /\ runPc = "returned")

\* Stop and Run have returned while the channel still holds an update and
\* pollUpdates is blocked in its send.
C20_Witness ==
  /\ stopPc = "returned"
  /\ runPc = "returned"
  /\ ~crashed
  /\ LiveWorkers = {}
  /\ updateC # << >>
  /\ pollPc = "send"
  /\ ~CanSend

====
